---- MODULE Spec2Model ----
(***************************************************************************)
(* Raster preprocessing pipeline of the BorderWatch application:           *)
(*   src/src/preprocessing/optical_preprocess.py  (Sentinel-2 driver)      *)
(*   src/src/preprocessing/sar_preprocess.py      (Sentinel-1 driver)      *)
(*                                                                         *)
(* Rasters are abstracted to one spatial axis: a raster covers the         *)
(* geographic positions lo..hi, and a pixel is named by its coordinate in  *)
(* the raster's CRS.  Pixel values of spectral bands are "valid" unless    *)
(* set to nodata.  Calls into rioxarray / xarray / rasterio that depend on *)
(* the files read (open, reproject, concat, write) either succeed or       *)
(* raise; the outcome is an input of the step.                             *)
(***************************************************************************)
EXTENDS Integers, Sequences, FiniteSets, TLC

VARIABLES
    script,      \* which driver is running: "optical" | "radar"
    run,         \* number of the current invocation of the driver
    pc,          \* position in the driver / in process_s2_image / process_sar_image
    roiIdx,      \* index into Rois of the ROI of the `for roi in rois` loop
    units,       \* optical: groups (key, paths) of the ROI; radar: its tiff files
    unitIdx,     \* index into units of the inner for loop
    loc,         \* locals of the running process_* call
    result,      \* value returned by process_* for the current unit
    exc,         \* exception that left the driver (None while none did)
    fs,          \* processed output directory: path -> file or NoFile
    debugFs,     \* radar SENTINEL-1_DEBUG directory: set of debug file paths
    ran,         \* history: components run in this run for the unit at unitIdx
    skipped,     \* history: unit indexes of this ROI skipped as already processed
    firstWrite,  \* history: path -> the first file ever written at it
    listing,     \* contents of the ROI's data directory read by the discovery
    files,       \* s2_jp2_files / sar_files: the list the discovery returned
    qaIn,        \* mask derivation alone: [band, v] quality file kind and value
    maskOut,     \* mask derivation alone: << >>, then <<the mask value derived>>
    workers,     \* concurrent drivers: worker -> [pc, path, result]
    writes,      \* concurrent drivers, history: path -> workers that wrote it, in order
    dbIn,        \* decibel transform alone: <<x, y>> amplitudes
    dbOut,       \* decibel transform alone: << >>, then <<to_decibel(x), to_decibel(y)>>
    archives,    \* download directory: product name -> NoFileRec or the .zip on disk
    dlPc,        \* position of download_satellite_data / download_product
    products,    \* the list search_products returned
    prodIdx,     \* index of `product` in products[:max_downloads]
    dlRet,       \* history: product name -> what download_product returned last
    downloaded_count,
    dlRun        \* invocations of the download script so far

vars == <<script, run, pc, roiIdx, units, unitIdx, loc, result, exc, fs,
          debugFs, ran, skipped, firstWrite, listing, files, qaIn, maskOut,
          workers, writes, dbIn, dbOut, archives, dlPc, products, prodIdx,
          dlRet, downloaded_count, dlRun>>

pipeVars == <<script, run, pc, roiIdx, units, unitIdx, loc, result, exc, fs,
              debugFs, ran, skipped, firstWrite, listing, files>>

maskVars == <<qaIn, maskOut>>

raceVars == <<workers, writes>>

dbVars == <<dbIn, dbOut>>

\* the variables the drivers leave alone
dlVars == <<archives, dlPc, products, prodIdx, dlRet, downloaded_count, dlRun>>

sideVars == <<maskVars, raceVars, dbVars, dlVars>>

None == "None"

(***************************************************************************)
(* Bounds of the model.                                                    *)
(***************************************************************************)
MaxGeo == 2          \* geographic positions are 0..MaxGeo
MaxRuns == 2         \* invocations of a driver in one behaviour
MaxQA == 65535       \* quality values are 0..MaxQA
MaxAmp == 120        \* amplitudes given to the decibel transform are at most MaxAmp
NegAmp == 2          \* ... and at least -NegAmp

(***************************************************************************)
(* Cloud Mask derivation, optical_preprocess.py lines 204-218.             *)
(***************************************************************************)
Pow2(k) == 2 ^ k

\* (v & (1 << k)).astype(bool)
BitSet(v, k) == (v \div Pow2(k)) % 2 = 1

\* lines 207-209: bits 10, 11 and 14 OR-ed
QA60CloudMask(v) == BitSet(v, 10) \/ BitSet(v, 11) \/ BitSet(v, 14)

\* line 214
cloud_values == {3, 8, 9, 10}

SCLCloudMask_NoShadow(v) == v \in {8, 9, 10}

\* line 215: np.isin(values, cloud_values)
SCLCloudMask(v) == v \in cloud_values

\* 'QA60' in os.path.basename(path) / 'SCL_20m' in os.path.basename(path)
IsQA60(band) == band = "QA60"
IsSCL(band) == band = "SCL_20m"

\* line 200: rxr.open_rasterio(path, masked=True) hands out the integer
\* raster as floating point numbers (nodata becomes NaN); reproject_match
\* (line 202) keeps the type
open_rasterio_masked(v) == [dtype |-> "float32", v |-> v]

\* line 207: numpy defines & for integer and boolean arrays only; on a
\* floating point array it raises TypeError
BitwiseAndRaises(x) == x.dtype \in {"float32", "float64"}

\* lines 204-218: the mask value of one pixel x of the quality raster as
\* line 200 read it, None for an unknown band type
DeriveMaskValue(band, x) ==
    IF IsQA60(band)
    THEN IF BitwiseAndRaises(x) THEN [kind |-> "raise", exc |-> "TypeError"]
         ELSE [kind |-> "mask", v |-> QA60CloudMask(x.v)]
    ELSE IF IsSCL(band) THEN [kind |-> "mask", v |-> SCLCloudMask(x.v)]
    ELSE [kind |-> "None"]

\* lines 195, 220-223: an exception of lines 200-218 is caught and printed,
\* mask keeps the None of line 195
MaskAfterTry(r) == IF r.kind = "raise" THEN [kind |-> "None"] ELSE r

MaskIdle == qaIn = None /\ maskOut = << >>

MaskInit ==
    /\ qaIn \in [band : {"QA60", "SCL_20m"}, v : 0..MaxQA]
    /\ maskOut = << >>

DeriveQA60 ==
    /\ maskOut = << >>
    /\ IsQA60(qaIn.band)
    /\ maskOut' = << MaskAfterTry(DeriveMaskValue(qaIn.band, open_rasterio_masked(qaIn.v))) >>
    /\ UNCHANGED qaIn

DeriveSCL ==
    /\ maskOut = << >>
    /\ ~IsQA60(qaIn.band)
    /\ IsSCL(qaIn.band)
    /\ maskOut' = << MaskAfterTry(DeriveMaskValue(qaIn.band, open_rasterio_masked(qaIn.v))) >>
    /\ UNCHANGED qaIn

(***************************************************************************)
(* Coordinate reference systems and the ROI configuration.                 *)
(***************************************************************************)
GEO == "EPSG:4326"       \* CRS of the ROI polygons (rois.json)
UTM == "EPSG:32643"      \* projected CRS of the tiles (metres)

\* Projected coordinates are metres, far from the degree range: no
\* projected coordinate of a position equals a geographic coordinate.
UTMOffset == MaxGeo + 1

\* coordinate x, given in CRS `from`, expressed in CRS `to`
Transform(x, from, to) ==
    IF from = to THEN x
    ELSE IF from = GEO /\ to = UTM THEN x + UTMOffset
    ELSE IF from = UTM /\ to = GEO THEN x - UTMOffset
    ELSE x

\* load_rois(ROI_FILE): features with properties.name and geometry
Rois == << [name |-> "roiA", geometry |-> [lo |-> 0, hi |-> 1]],
           [name |-> "roiB", geometry |-> [lo |-> 1, hi |-> 2]] >>

\* rasters as found on disk: CRS (None when the file carries none) and the
\* geographic positions lo..hi it covers
Rasters == { r \in [crs : {GEO, UTM, None}, lo : 0..MaxGeo, hi : 0..MaxGeo] :
                 r.lo <= r.hi }

\* pixel coordinates of a raster, in its own CRS
RasterPx(r) == { Transform(g, GEO, r.crs) : g \in r.lo..r.hi }

NoneRec == [kind |-> "None"]
NoFileRec == [kind |-> "NoFile"]

(***************************************************************************)
(* Sentinel-2 files and their discovery, find_s2_jp2_files.                *)
(***************************************************************************)
\* a product directory S2A_MSI<level>_<n>_<tile>.SAFE and a granule
\* directory <level>_T<n> under its GRANULE directory
ProdL1C == [sat |-> "S2A", level |-> "L1C", n |-> 1, tile |-> "T43SGT"]
GranL1C(n) == [level |-> "L1C", n |-> n]
ProdL2A(tile) == [sat |-> "S2A", level |-> "L2A", n |-> 1, tile |-> tile]
\* a product of Sentinel-2C: S2C_MSIL1C_<n>_<tile>.SAFE
ProdS2C == [sat |-> "S2C", level |-> "L1C", n |-> 1, tile |-> "T43SGT"]
GranL2A(n) == [level |-> "L2A", n |-> n]

S2File(prod, gran, dir, band) ==
    [prod |-> prod, gran |-> gran, dir |-> dir, band |-> band]

\* contents of <DATA_DIR>/<roi>/SENTINEL-2, in directory order
S2Disks ==
    { << >>,
      << S2File(ProdL1C, GranL1C(1), "IMG_DATA", "B04"),
         S2File(ProdL1C, GranL1C(1), "QI_DATA", "QA60"),
         S2File(ProdL1C, GranL1C(1), "IMG_DATA", "B11") >>,
      << S2File(ProdL1C, GranL1C(1), "IMG_DATA", "B04"),
         S2File(ProdL1C, GranL1C(1), "QI_DATA", "QA60"),
         S2File(ProdL1C, GranL1C(1), "IMG_DATA", "SCL_20m") >>,
      << S2File(ProdL1C, GranL1C(1), "QI_DATA", "QA60"),
         S2File(ProdL1C, GranL1C(2), "IMG_DATA", "B04") >>,
      << S2File(ProdL1C, GranL1C(1), "IMG_DATA", "B04"),
         S2File(ProdL1C, GranL1C(1), "IMG_DATA", "B03"),
         S2File(ProdL1C, GranL1C(2), "IMG_DATA", "B04") >>,
      << S2File(ProdL2A("T43SGT"), GranL2A(1), "IMG_DATA", "B04"),
         S2File(ProdL2A("T43SGT"), GranL2A(1), "IMG_DATA", "SCL_20m") >>,
      << S2File(ProdL2A("T43SGC"), GranL2A(1), "IMG_DATA", "B04") >>,
      << S2File(ProdS2C, GranL1C(1), "IMG_DATA", "B04") >> }

\* the name ends with the letter C
EndsWithC(name) == name \in {"L1C", "L2C", "T43SGC"}

\* the name starts with the characters S2
StartsWithS2(name) == name \in {"S2A", "S2B", "S2C"}

\* line 45: glob 'S2*_MSIL*C_*.SAFE' wants a name that starts with "S2" and
\* the characters "C_" somewhere after "_MSIL": at the end of the level, or
\* at the end of the tile name
SafeDirGlob(f) ==
    StartsWithS2(f.prod.sat) /\ (EndsWithC(f.prod.level) \/ EndsWithC(f.prod.tile))

\* line 65: '*_B0[2348].jp2' under IMG_DATA
pattern_10m(f) == f.dir = "IMG_DATA" /\ f.band \in {"B02", "B03", "B04", "B08"}

\* line 67: '*_B(0[567]|8A|1[12]).jp2' under IMG_DATA: glob has no
\* alternation, the parentheses and bars are literal characters
pattern_20m(f) ==
    f.dir = "IMG_DATA" /\
    f.band \in { "B(05|8A|11)", "B(05|8A|12)", "B(06|8A|11)",
                 "B(06|8A|12)", "B(07|8A|11)", "B(07|8A|12)" }

\* line 72
qa_band_pattern(f) == f.dir = "QI_DATA" /\ f.band = "QA60"

\* line 73
scl_band_pattern(f) == f.dir = "IMG_DATA" /\ f.band = "SCL_20m"

S2Found(f) ==
    SafeDirGlob(f) /\
    (pattern_10m(f) \/ pattern_20m(f) \/ qa_band_pattern(f) \/ scl_band_pattern(f))

Reverse(s) == [i \in 1..Len(s) |-> s[Len(s) + 1 - i]]

\* line 88: list(set(jp2_files)) lists the files in the iteration order of a
\* set of strings, which is any order of them
SetOrders(s) == { [i \in 1..Len(s) |-> s[q[i]]] : q \in Permutations(1..Len(s)) }

\* find_s2_jp2_files: the lists it can return for a directory content
find_s2_jp2_files(disk) == SetOrders(SelectSeq(disk, S2Found))

(***************************************************************************)
(* Grouping by (product_id, granule_id), lines 102-116 and 278-289.        *)
(***************************************************************************)
\* the regular expression of lines 107 and 280 matches the path
IdMatch(f) ==
    /\ f.prod.sat \in {"S2A", "S2B"}
    /\ f.prod.level \in {"L1C", "L2C"}
    /\ f.gran.level \in {"L1C", "L2C"}

GroupKey(f) == <<f.prod, f.gran>>

RECURSIVE GroupInto(_, _)
GroupInto(paths, groups) ==
    IF paths = << >> THEN groups
    ELSE LET p == Head(paths)
             at == { i \in 1..Len(groups) : groups[i].key = GroupKey(p) }
         IN  IF ~IdMatch(p) THEN GroupInto(Tail(paths), groups)
             ELSE IF at = {}
             THEN GroupInto(Tail(paths),
                            Append(groups, [key |-> GroupKey(p), paths |-> <<p>>]))
             ELSE LET i == CHOOSE j \in at : TRUE
                  IN  GroupInto(Tail(paths),
                                [groups EXCEPT ![i].paths = Append(@, p)])

GroupPaths(paths) == GroupInto(paths, << >>)

\* lines 124-125
IsQualityPath(f) == f.band \in {"QA60", "SCL_20m"}
image_band_paths(paths) == SelectSeq(paths, LAMBDA f : ~IsQualityPath(f))
qa_scl_band_paths(paths) == SelectSeq(paths, IsQualityPath)

\* line 135: r'_B(\d{2}|8A)\.jp2$' on the file name
BandNameMatches(f) ==
    f.band \in { "B" \o ToString(d[1]) \o ToString(d[2]) : d \in (0..9) \X (0..9) }
                   \cup {"B8A"}

\* line 155
reference_band == "B04"

(***************************************************************************)
(* Output paths (optical lines 273, 294-296; radar lines 200, 205-207).    *)
(***************************************************************************)
GranuleId(gran) == gran.level \o "_T" \o ToString(gran.n)

\* product_key.replace('.SAFE', '')
BaseProductName(prod) ==
    prod.sat \o "_MSI" \o prod.level \o "_" \o ToString(prod.n) \o "_" \o prod.tile

S2OutputPath(roi_name, key) ==
    roi_name \o "/SENTINEL-2/" \o BaseProductName(key[1]) \o "_"
             \o GranuleId(key[2]) \o "_preprocessed.tif"

RoiNames == { Rois[i].name : i \in 1..Len(Rois) }

S2Keys == { GroupKey(d[i]) : <<d, i>> \in { <<e, j>> \in S2Disks \X (1..3) : j <= Len(e) } }

S2OutPaths == { S2OutputPath(r, k) : <<r, k>> \in RoiNames \X S2Keys }

(***************************************************************************)
(* Grids: the in-memory rasters of process_s2_image / process_sar_image.   *)
(***************************************************************************)
\* a stack of bands on the grid of `raster`, all pixels valid.  crsIn is
\* the CRS the grid carries when it is handed to its first spatial
\* operation, hist the operations applied to it, in order
Grid(raster, bands, dims) ==
    [kind |-> "grid", crs |-> raster.crs, px |-> RasterPx(raster), bands |-> bands,
     dims |-> dims, nodata |-> {}, clipped |-> FALSE, unit |-> "linear",
     constant |-> FALSE, denoised |-> FALSE, reprojected |-> FALSE,
     src |-> [lo |-> raster.lo, hi |-> raster.hi],
     crsIn |-> raster.crs, hist |-> << >>]

\* sample quality rasters over the pixels px: 0 everywhere, or one pixel
\* with bit 10 set (1024) or with class 8 and 0 elsewhere
QARasters(px) ==
    { [x \in px |-> IF x = at THEN v ELSE 0] : <<at, v>> \in px \X {0, 1024, 8} }

\* lines 200-216 on a whole quality raster: the 2-D mask array, or the
\* exception of line 207
DeriveMask(band, vals) ==
    LET r == [x \in DOMAIN vals |-> DeriveMaskValue(band, open_rasterio_masked(vals[x]))]
    IN  IF \E x \in DOMAIN vals : r[x].kind = "raise"
        THEN [kind |-> "raise", exc |-> "TypeError"]
        ELSE [kind |-> "mask", band |-> band, dims |-> <<"y", "x">>,
              at |-> [x \in DOMAIN vals |-> r[x].v]]

\* line 229: xr.DataArray(mask, dims=stacked_data.dims, ...) takes the mask
\* array with the dimension names of the stack and raises ValueError when
\* the array has another number of dimensions than names given
DataArrayRaises(mask, dims) == Len(mask.dims) # Len(dims)

\* line 229: stacked_data.where(~mask, nan)
Where(stack, mask) ==
    [stack EXCEPT !.nodata =
        @ \cup { <<stack.bands[i], x>> :
                    <<i, x>> \in { <<j, y>> \in (1..Len(stack.bands)) \X stack.px :
                                      mask.at[y] } }]

\* the geometry, given in CRS geomCrs, in the coordinates of the grid
GeometryInCrs(geometry, geomCrs, gridCrs) ==
    [lo |-> Transform(geometry.lo, geomCrs, gridCrs),
     hi |-> Transform(geometry.hi, geomCrs, gridCrs)]

\* rio.clip(geometries, drop=True, crs=geomCrs): crs is the CRS the
\* geometries are given in; they are moved to the grid's CRS from it
ClipPx(grid, geometry, geomCrs) ==
    LET g == GeometryInCrs(geometry, geomCrs, grid.crs)
    IN  { x \in grid.px : g.lo <= x /\ x <= g.hi }

RioClip(grid, geometry, geomCrs) ==
    IF grid.crs = None THEN [kind |-> "raise", exc |-> "MissingCRS"]
    ELSE IF ClipPx(grid, geometry, geomCrs) = {}
    THEN [kind |-> "raise", exc |-> "NoDataInBounds"]
    ELSE [grid EXCEPT !.px = ClipPx(grid, geometry, geomCrs),
                      !.nodata = { c \in @ : c[2] \in ClipPx(grid, geometry, geomCrs) },
                      !.clipped = TRUE]

\* line 240: the CRS handed to clip as the CRS of the ROI geometry
S2ClipGeomCrs(stack) == stack.crs

\* the ROI polygon does not meet the raster's footprint
RoiOutside(geometry, src) == geometry.hi < src.lo \/ src.hi < geometry.lo

(***************************************************************************)
(* Sentinel-1 files and their discovery, find_sar_tiff_files.              *)
(***************************************************************************)
SarFile(cog, n, base) == [safe |-> [cog |-> cog, n |-> n], base |-> base]

\* contents of <DATA_DIR>/<roi>/SENTINEL-1
SarListings ==
    { << >>,
      << SarFile(TRUE, 1, "s1a-iw-grd-vv"), SarFile(TRUE, 1, "s1a-iw-grd-vh") >>,
      << SarFile(TRUE, 1, "s1a-iw-grd-vv"), SarFile(FALSE, 2, "s1a-iw-grd-vh") >>,
      << SarFile(FALSE, 2, "s1a-iw-grd-vv") >>,
      << SarFile(TRUE, 1, "s1a-iw-grd-vv"), SarFile(TRUE, 3, "s1a-iw-grd-vv") >> }

\* the directory is listed in an order the file system chooses
SarDisks == SarListings \cup { Reverse(d) : d \in SarListings }

\* lines 51-55: the '..._COG.SAFE' directories, or every '.SAFE' directory
\* when there is none of those
safe_dirs(disk) ==
    IF \E i \in 1..Len(disk) : disk[i].safe.cog
    THEN { disk[i].safe : i \in { j \in 1..Len(disk) : disk[j].safe.cog } }
    ELSE { disk[i].safe : i \in 1..Len(disk) }

\* lines 61-74
find_sar_tiff_files(disk) == SelectSeq(disk, LAMBDA f : f.safe \in safe_dirs(disk))

\* lines 200, 205-207: os.path.splitext(os.path.basename(sar_file_path))[0]
SarOutputPath(roi_name, f) ==
    roi_name \o "/SENTINEL-1/" \o f.base \o "_preprocessed.tif"

\* line 151
SarDebugPath(roi_name, f) ==
    roi_name \o "/SENTINEL-1_DEBUG/DEBUG_" \o f.base \o "_reprojected.tif"

SarFiles == { d[i] : <<d, i>> \in { <<e, j>> \in SarDisks \X (1..2) : j <= Len(e) } }

SarOutPaths == { SarOutputPath(r, f) : <<r, f>> \in RoiNames \X SarFiles }

(***************************************************************************)
(* The drivers (__main__ of both files): state shared by their steps.      *)
(***************************************************************************)
OutPaths == S2OutPaths \cup SarOutPaths

Idle == [kind |-> "idle"]

PipeInit ==
    /\ script \in {"optical", "radar"}
    /\ run = 1
    /\ pc = "start"
    /\ roiIdx = 0
    /\ units = << >>
    /\ unitIdx = 0
    /\ loc = Idle
    /\ result = NoneRec
    /\ exc = None
    /\ fs = [p \in OutPaths |-> NoFileRec]
    /\ debugFs = {}
    /\ ran = {}
    /\ skipped = {}
    /\ firstWrite = [p \in OutPaths |-> NoFileRec]
    /\ listing = << >>
    /\ files = << >>

PipeIdle ==
    /\ script = None /\ run = 0 /\ pc = "idle" /\ roiIdx = 0 /\ units = << >>
    /\ unitIdx = 0 /\ loc = Idle /\ result = NoneRec /\ exc = None
    /\ fs = [p \in OutPaths |-> NoFileRec] /\ debugFs = {} /\ ran = {}
    /\ skipped = {} /\ firstWrite = [p \in OutPaths |-> NoFileRec]
    /\ listing = << >> /\ files = << >>

roi == Rois[roiIdx]

\* optical 294-296 / radar 205-207
output_path ==
    IF script = "optical"
    THEN S2OutputPath(roi.name, units[unitIdx].key)
    ELSE SarOutputPath(roi.name, units[unitIdx])

OutputExists_Never(p) == FALSE

\* os.path.exists(output_path), optical 298 / radar 209
OutputExists(p) == fs[p] # NoFileRec

\* history: component c runs for the current unit
Runs(c) == ran' = ran \cup {c}

\* discovery (and, in the optical driver, grouping) ran for every unit of
\* the ROI before the loop over the units starts
FoundBy == IF script = "optical" THEN {"discover", "group"} ELSE {"discover"}

\* the inner for loop moves to the next unit
NextUnit ==
    /\ unitIdx' = unitIdx + 1
    /\ ran' = IF unitIdx + 1 <= Len(units) THEN FoundBy ELSE {}

\* the `for roi in rois` loop moves on
GoNextRoi ==
    IF roiIdx < Len(Rois)
    THEN roiIdx' = roiIdx + 1 /\ pc' = "find"
    ELSE roiIdx' = roiIdx /\ pc' = "done"

\* an exception leaves the driver: the interpreter ends the script
Crash(e) == pc' = "crashed" /\ exc' = e

\* optical 260-265 / radar 185-190
LoadRois ==
    /\ pc = "start"
    /\ IF Rois = << >>
       THEN pc' = "done" /\ roiIdx' = 0
       ELSE pc' = "find" /\ roiIdx' = 1
    /\ UNCHANGED <<script, run, units, unitIdx, loc, result, exc, fs, debugFs,
                   ran, skipped, firstWrite, listing, files, sideVars>>

\* optical 267-289: discovery, then grouping into product_granule_groups
FindS2 ==
    /\ pc = "find" /\ script = "optical"
    /\ \E d \in S2Disks : \E s2_jp2_files \in find_s2_jp2_files(d) :
          /\ listing' = d /\ files' = s2_jp2_files
          /\ IF s2_jp2_files = << >>
             THEN /\ GoNextRoi
                  /\ units' = << >> /\ ran' = {}
             ELSE /\ units' = GroupPaths(s2_jp2_files)
                  /\ ran' = IF units' = << >> THEN {} ELSE FoundBy
                  /\ pc' = "check" /\ roiIdx' = roiIdx
    /\ unitIdx' = 1
    /\ skipped' = {}
    /\ UNCHANGED <<script, run, loc, result, exc, fs, debugFs, firstWrite, sideVars>>

\* the inner for loop is exhausted
EndOfUnits ==
    /\ pc = "check" /\ unitIdx > Len(units)
    /\ GoNextRoi
    /\ UNCHANGED <<script, run, units, unitIdx, loc, result, exc, fs, debugFs,
                   ran, skipped, firstWrite, listing, files, sideVars>>

\* optical 298-300 / radar 209-211
SkipExisting ==
    /\ pc = "check" /\ unitIdx <= Len(units)
    /\ OutputExists(output_path)
    /\ skipped' = skipped \cup {unitIdx}
    /\ NextUnit
    /\ UNCHANGED <<script, run, pc, roiIdx, units, loc, result, exc, fs, debugFs,
                   firstWrite, listing, files, sideVars>>

(***************************************************************************)
(* process_s2_image, optical_preprocess.py lines 92-257.                   *)
(***************************************************************************)
S2Locals(paths) ==
    [kind |-> "s2", paths |-> paths, groups |-> << >>, gIdx |-> 0,
     processed |-> << >>, image |-> << >>, qa |-> << >>,
     band_data |-> << >>, stacked |-> NoneRec, mask |-> NoneRec,
     maskExc |-> None, opened |-> {}]

\* line 302: process_s2_image(paths_to_process, roi['geometry'])
CallProcessS2 ==
    /\ pc = "check" /\ script = "optical" /\ unitIdx <= Len(units)
    /\ ~OutputExists(output_path)
    /\ loc' = S2Locals(units[unitIdx].paths)
    /\ pc' = "s2_group"
    /\ Runs("call")
    /\ UNCHANGED <<script, run, roiIdx, units, unitIdx, result, exc, fs, debugFs,
                   skipped, firstWrite, listing, files, sideVars>>

\* the locals left behind by a call that returned: how many granules it
\* had processed
Returned(l) == [kind |-> "returned", processed |-> Len(l.processed)]

\* lines 98-118
S2Group ==
    /\ pc = "s2_group"
    /\ IF loc.paths = << >>
       THEN /\ result' = NoneRec /\ pc' = "save" /\ loc' = Returned(loc)
       ELSE /\ loc' = [loc EXCEPT !.groups = GroupPaths(loc.paths), !.gIdx = 1]
            /\ pc' = "s2_granule" /\ result' = result
    /\ UNCHANGED <<script, run, roiIdx, units, unitIdx, exc, fs, debugFs, ran,
                   skipped, firstWrite, listing, files, sideVars>>

\* `continue` of the loop of line 120
S2Continue(l) == [l EXCEPT !.gIdx = @ + 1]

S2Return_Last ==
    /\ pc = "s2_granule" /\ loc.gIdx > Len(loc.groups)
    /\ result' = IF loc.processed = << >> THEN NoneRec
                  ELSE loc.processed[Len(loc.processed)]
    /\ pc' = "save"
    /\ loc' = Returned(loc)
    /\ UNCHANGED <<script, run, roiIdx, units, unitIdx, exc, fs, debugFs, ran,
                   skipped, firstWrite, listing, files, sideVars>>

\* lines 245-257: after the loop
S2Return ==
    /\ pc = "s2_granule" /\ loc.gIdx > Len(loc.groups)
    /\ result' = IF loc.processed = << >> THEN NoneRec ELSE loc.processed[1]
    /\ pc' = "save"
    /\ loc' = Returned(loc)
    /\ UNCHANGED <<script, run, roiIdx, units, unitIdx, exc, fs, debugFs, ran,
                   skipped, firstWrite, listing, files, sideVars>>

\* lines 120-129
S2Split ==
    /\ pc = "s2_granule" /\ loc.gIdx <= Len(loc.groups)
    /\ LET paths == loc.groups[loc.gIdx].paths
       IN  IF image_band_paths(paths) = << >>
           THEN loc' = S2Continue(loc) /\ pc' = pc
           ELSE /\ loc' = [loc EXCEPT !.image = image_band_paths(paths),
                                      !.qa = qa_scl_band_paths(paths),
                                      !.opened = {}]
                /\ pc' = "s2_load"
    /\ UNCHANGED <<script, run, roiIdx, units, unitIdx, result, exc, fs, debugFs,
                   ran, skipped, firstWrite, listing, files, sideVars>>

\* band names of the image paths, in order
BandsOf(paths) == [i \in 1..Len(paths) |-> paths[i].band]

\* line 143: band_ds.rio.set_band(band_name).  The rio accessor of
\* rioxarray has no attribute set_band: the call raises AttributeError, for
\* every band it is made for
rio_set_band(band_name) == [kind |-> "raise", exc |-> "AttributeError"]

\* lines 133-158: every image band whose name matches is read (the files
\* in `opened` are those that open_rasterio reads, line 139) and is stored
\* in band_data through rio.set_band (line 143); an exception of either is
\* caught at line 144 and the band is left out.  A granule without band
\* data (149-151) or without the reference band (155-158) is skipped
S2Load ==
    /\ pc = "s2_load"
    /\ \E opened \in SUBSET { loc.image[i].band : i \in 1..Len(loc.image) } :
          LET band_data == SelectSeq(BandsOf(SelectSeq(loc.image, BandNameMatches)),
                                     LAMBDA b : /\ b \in opened
                                                /\ rio_set_band(b).kind # "raise")
              has(b) == \E i \in 1..Len(band_data) : band_data[i] = b
          IN  IF band_data = << >> \/ ~has(reference_band)
              THEN /\ loc' = S2Continue([loc EXCEPT !.band_data = band_data,
                                                    !.opened = opened])
                   /\ pc' = "s2_granule"
              ELSE /\ loc' = [loc EXCEPT !.band_data = band_data, !.opened = opened]
                   /\ pc' = "s2_align"
    /\ Runs("load")
    /\ UNCHANGED <<script, run, roiIdx, units, unitIdx, result, exc, fs, debugFs,
                   skipped, firstWrite, listing, files, sideVars>>

\* lines 160-185: reproject every band onto the CRS and resolution of the
\* reference band's raster (a band that fails is left out), then xr.concat
\* the bands along the new dimension 'band'
S2Align ==
    /\ pc = "s2_align"
    /\ \E raster \in Rasters :
       \E done \in SUBSET { loc.band_data[i] : i \in 1..Len(loc.band_data) } :
       \E concat_ok \in BOOLEAN :
          LET resampled == IF raster.crs = None THEN << >>
                           ELSE SelectSeq(loc.band_data, LAMBDA b : b \in done)
          IN  IF resampled = << >>
              THEN /\ loc' = S2Continue(loc) /\ pc' = "s2_granule" /\ exc' = exc
                   /\ Runs("align")
              ELSE /\ IF concat_ok
                      THEN /\ loc' = [loc EXCEPT !.stacked =
                                         Grid(raster, resampled, <<"band", "y", "x">>)]
                           /\ pc' = "s2_mask" /\ exc' = exc
                      ELSE Crash("ValueError") /\ loc' = Idle
                   /\ ran' = ran \cup {"align", "stack"}
    /\ UNCHANGED <<script, run, roiIdx, units, unitIdx, result, fs, debugFs,
                   skipped, firstWrite, listing, files, sideVars>>

\* lines 196-218: the mask mode is read off the file name of the first
\* quality path of the granule's list
MaskMode(qa) ==
    IF qa = << >> THEN None
    ELSE IF IsQA60(qa[1].band) THEN "bitfield"
    ELSE IF IsSCL(qa[1].band) THEN "classification"
    ELSE None

\* lines 195-223: the mask derived from the first quality path, and the
\* exception caught at line 220, if any: an exception while the raster is
\* read or aligned (ok = FALSE) or while the mask is computed leaves
\* mask = None
S2DerivedMasks(l) ==
    IF l.qa = << >> THEN {[mask |-> NoneRec, exc |-> None]}
    ELSE { IF ~ok THEN [mask |-> NoneRec, exc |-> "RasterioIOError"]
           ELSE IF MaskMode(l.qa) = None THEN [mask |-> NoneRec, exc |-> None]
           ELSE LET m == DeriveMask(l.qa[1].band, vals)
                IN  IF m.kind = "raise" THEN [mask |-> NoneRec, exc |-> m.exc]
                    ELSE [mask |-> m, exc |-> None]
           : <<ok, vals>> \in BOOLEAN \X QARasters(l.stacked.px) }

\* lines 195-232: derive the mask and apply it to the stack
S2Mask ==
    /\ pc = "s2_mask"
    /\ \E derived \in S2DerivedMasks(loc) :
          LET mask == derived.mask
          IN
          IF mask = NoneRec
          THEN /\ pc' = "s2_clip" /\ exc' = exc
               /\ loc' = [loc EXCEPT !.mask = mask, !.maskExc = derived.exc]
               /\ IF loc.qa = << >> THEN ran' = ran ELSE Runs("mask")
          ELSE /\ IF DataArrayRaises(mask, loc.stacked.dims)
                  THEN Crash("ValueError") /\ loc' = Idle
                  ELSE /\ loc' = [loc EXCEPT !.mask = mask, !.maskExc = derived.exc,
                                             !.stacked = Where(loc.stacked, mask)]
                       /\ pc' = "s2_clip" /\ exc' = exc
               /\ ran' = ran \cup {"mask", "apply"}
    /\ UNCHANGED <<script, run, roiIdx, units, unitIdx, result, fs, debugFs,
                   skipped, firstWrite, listing, files, sideVars>>

\* lines 234-243
S2Clip ==
    /\ pc = "s2_clip"
    /\ LET clipped_data == RioClip(loc.stacked, roi.geometry, S2ClipGeomCrs(loc.stacked))
       IN  IF clipped_data.kind = "raise"
           THEN Crash(clipped_data.exc) /\ loc' = Idle
           ELSE /\ loc' = S2Continue([loc EXCEPT !.processed = Append(@, clipped_data)])
                /\ pc' = "s2_granule" /\ exc' = exc
    /\ Runs("clip")
    /\ UNCHANGED <<script, run, roiIdx, units, unitIdx, result, fs, debugFs,
                   skipped, firstWrite, listing, files, sideVars>>

\* the file that to_raster writes for a grid
FileOf(grid) ==
    [kind |-> "tif", run |-> run, crs |-> grid.crs, clipped |-> grid.clipped]

\* optical 304-314
SaveS2 ==
    /\ pc = "save" /\ script = "optical"
    /\ IF result = NoneRec
       THEN /\ pc' = "check" /\ NextUnit
            /\ UNCHANGED <<fs, firstWrite, exc>>
       ELSE /\ \E ok \in BOOLEAN :
                 LET data == IF result.crs = None
                             THEN [result EXCEPT !.crs = UTM] ELSE result
                 IN  IF ok
                     THEN /\ fs' = [fs EXCEPT ![output_path] = FileOf(data)]
                          /\ firstWrite' =
                                IF firstWrite[output_path] = NoFileRec
                                THEN [firstWrite EXCEPT ![output_path] = FileOf(data)]
                                ELSE firstWrite
                          /\ pc' = "check" /\ NextUnit /\ exc' = exc
                     ELSE /\ Crash("WriteError") /\ Runs("write")
                          /\ UNCHANGED <<fs, firstWrite, unitIdx>>
    /\ result' = NoneRec /\ loc' = Idle
    /\ UNCHANGED <<script, run, roiIdx, units, debugFs, skipped, listing, files, sideVars>>

(***************************************************************************)
(* The radar driver and process_sar_image, sar_preprocess.py.              *)
(***************************************************************************)
\* radar 193-201
FindSar ==
    /\ pc = "find" /\ script = "radar"
    /\ \E d \in SarDisks :
          LET sar_files == find_sar_tiff_files(d)
          IN  /\ listing' = d /\ files' = sar_files
              /\ IF sar_files = << >>
                 THEN /\ GoNextRoi
                      /\ units' = << >> /\ ran' = {}
                 ELSE /\ units' = sar_files
                      /\ ran' = FoundBy
                      /\ pc' = "check" /\ roiIdx' = roiIdx
    /\ unitIdx' = 1
    /\ skipped' = {}
    /\ UNCHANGED <<script, run, loc, result, exc, fs, debugFs, firstWrite, sideVars>>

\* lines 86-92: the amplitude raster read from the file; constant tells
\* whether its minimum equals its maximum
SarRead(raster, constant) ==
    [Grid(raster, <<"amplitude">>, <<"y", "x">>) EXCEPT !.constant = constant]

\* rescale to [0,1], denoise_nl_means, rescale back (lines 100-102)
Denoise(grid) == [grid EXCEPT !.denoised = TRUE, !.hist = Append(@, "denoise")]

SpeckleFilter_Always(grid) == Denoise(grid)

\* lines 96-106: a grid with max_val - min_val > 0 is denoised, a constant
\* grid keeps its values (line 104)
SpeckleFilter(grid) ==
    IF ~grid.constant THEN Denoise(grid) ELSE grid

\* line 109
target_crs == UTM

\* rio.reproject(dst_crs): the pixels' coordinates in dst_crs
Reproject(grid, dst_crs) ==
    [grid EXCEPT !.crs = dst_crs,
                 !.px = { Transform(x, grid.crs, dst_crs) : x \in grid.px },
                 !.reprojected = TRUE,
                 !.hist = Append(@, "reproject")]

\* lines 108-120: a failed reprojection is caught and the grid is used as
\* it is; a grid without CRS cannot be reprojected
SarReproject(sar_data, ok) ==
    LET given == [sar_data EXCEPT !.crsIn = sar_data.crs]
    IN  IF given.crs # target_crs
        THEN IF ok /\ given.crs # None
             THEN Reproject(given, target_crs)
             ELSE given
        ELSE given

\* lines 153-154: a grid without CRS is labelled target_crs
SarLabel(grid) == IF grid.crs = None THEN [grid EXCEPT !.crs = target_crs] ELSE grid

\* line 163: 10 * np.log10(np.maximum(grid, 1e-5))
ToDecibel(grid) == [grid EXCEPT !.unit = "dB", !.hist = Append(@, "decibel")]

\* lines 166-176: lines 171-172 (the clip) are commented out and the dB
\* grid is returned as it is
SarClip(grid, geometry) == grid

\* the steps of process_sar_image, in order, each of which can raise
SarSteps == <<"load", "filter", "align", "debug", "decibel">>

\* the same steps with the geometric correction ahead of the speckle filter
process_sar_image_ReprojectFirst(raster, constant, reproject_ok, fail, geometry) ==
    LET reprojected == SarReproject(SarRead(raster, constant), reproject_ok)
        labelled == SarLabel(SpeckleFilter(reprojected))
        returned == SarClip(ToDecibel(labelled), geometry)
        upto(step) == { SarSteps[i] : i \in { j \in 1..Len(SarSteps) :
                          \A k \in 1..(j - 1) : SarSteps[k] # fail } }
    IN  [ret   |-> IF fail # "none" \/ returned.kind = "raise"
                   THEN NoneRec ELSE returned,
         debug |-> fail \in {"none", "decibel"},
         comps |-> upto(fail)]

\* process_sar_image, lines 78-182.  fail names the first step that raises
\* ("none": no step does); reproject_ok is the outcome of rio.reproject,
\* whose exception is caught at line 118.  Any other exception returns None
\* (lines 178-182).  The debug copy of line 155 is written when the steps
\* before it did not raise.
process_sar_image(raster, constant, reproject_ok, fail, geometry) ==
    LET filtered == SpeckleFilter(SarRead(raster, constant))
        labelled == SarLabel(SarReproject(filtered, reproject_ok))
        returned == SarClip(ToDecibel(labelled), geometry)
        upto(step) == { SarSteps[i] : i \in { j \in 1..Len(SarSteps) :
                          \A k \in 1..(j - 1) : SarSteps[k] # fail } }
    IN  [ret   |-> IF fail # "none" \/ returned.kind = "raise"
                   THEN NoneRec ELSE returned,
         debug |-> fail \in {"none", "decibel"},
         comps |-> upto(fail)]

\* what one call reads and meets: the raster of the file, whether it is
\* constant, the outcome of rio.reproject, and the step that raises (the
\* inputs after a step that raises are never read); the sample rasters
\* are those whose footprint starts at position 0
SarInputs ==
    [raster : { r \in Rasters : r.lo = 0 }, constant : BOOLEAN,
     reproject_ok : BOOLEAN, fail : {"none"}]
    \cup [raster : {CHOOSE r \in Rasters : TRUE}, constant : {FALSE},
          reproject_ok : {TRUE},
          fail : { SarSteps[i] : i \in 1..Len(SarSteps) }]

\* line 213: process_sar_image(sar_file_path, roi['geometry'], dem_path=DEM_PATH)
ProcessSar ==
    /\ pc = "check" /\ script = "radar" /\ unitIdx <= Len(units)
    /\ ~OutputExists(output_path)
    /\ \E in \in SarInputs :
          LET out == process_sar_image(in.raster, in.constant, in.reproject_ok,
                                       in.fail, roi.geometry)
          IN  /\ result' = out.ret
              /\ debugFs' = IF out.debug
                            THEN debugFs \cup {SarDebugPath(roi.name, units[unitIdx])}
                            ELSE debugFs
              /\ ran' = ran \cup {"call"} \cup out.comps
    /\ pc' = "save"
    /\ UNCHANGED <<script, run, roiIdx, units, unitIdx, loc, exc, fs, skipped,
                   firstWrite, listing, files, sideVars>>

\* radar 215-225
SaveSar ==
    /\ pc = "save" /\ script = "radar"
    /\ IF result = NoneRec
       THEN /\ pc' = "check" /\ NextUnit
            /\ UNCHANGED <<fs, firstWrite, exc>>
       ELSE /\ \E ok \in BOOLEAN :
                 LET data == IF result.crs = None
                             THEN [result EXCEPT !.crs = GEO] ELSE result
                 IN  IF ok
                     THEN /\ fs' = [fs EXCEPT ![output_path] = FileOf(data)]
                          /\ firstWrite' =
                                IF firstWrite[output_path] = NoFileRec
                                THEN [firstWrite EXCEPT ![output_path] = FileOf(data)]
                                ELSE firstWrite
                          /\ pc' = "check" /\ NextUnit /\ exc' = exc
                     ELSE /\ Crash("WriteError") /\ Runs("write")
                          /\ UNCHANGED <<fs, firstWrite, unitIdx>>
    /\ result' = NoneRec
    /\ UNCHANGED <<script, run, roiIdx, units, loc, debugFs, skipped, listing, files, sideVars>>

(***************************************************************************)
(* The decibel transform of sar_preprocess.py line 163 on one value.       *)
(* Amplitudes are counted in units of 10^-AmpUnitExp, so that the floor    *)
(* 1e-5 is the integer epsilon.  np.log10 gives a finite value for a       *)
(* positive argument, -inf for 0 and nan for a negative one; of a finite   *)
(* logarithm the model keeps the integer part.                             *)
(***************************************************************************)
AmpUnitExp == 6

\* 1e-5 in units of 10^-6
epsilon == 10

\* np.maximum(a, b)
Maximum(a, b) == IF a >= b THEN a ELSE b

\* integer part of log10(n), n >= 1
RECURSIVE ILog10(_)
ILog10(n) == IF n < 10 THEN 0 ELSE 1 + ILog10(n \div 10)

\* np.log10(v) of v units
Log10(v) ==
    IF v > 0 THEN [kind |-> "finite", val |-> ILog10(v) - AmpUnitExp]
    ELSE IF v = 0 THEN [kind |-> "-inf"]
    ELSE [kind |-> "nan"]

\* 10 * r
Times10(r) == IF r.kind = "finite" THEN [r EXCEPT !.val = 10 * @] ELSE r

to_decibel_NoFloor(x) == Times10(Log10(x))

\* 10 * np.log10(np.maximum(x, 1e-5))
to_decibel(x) == Times10(Log10(Maximum(x, epsilon)))

DbIdle == dbIn = None /\ dbOut = << >>

DbInit == dbIn \in ((0 - NegAmp)..MaxAmp) \X ((0 - NegAmp)..MaxAmp) /\ dbOut = << >>

\* line 163 on the two values of dbIn
ConvertToDecibel ==
    /\ dbOut = << >>
    /\ dbOut' = << to_decibel(dbIn[1]), to_decibel(dbIn[2]) >>
    /\ UNCHANGED dbIn

(***************************************************************************)
(* Two drivers at work on the same data at the same time: each runs the    *)
(* check / process / write sequence of a unit (optical 298-312, radar      *)
(* 209-223) on its own, with the processed directory shared.               *)
(***************************************************************************)
Workers == {"w1", "w2"}

\* the units the workers are given: granule 1 of the L1C product with its
\* B04 file and no quality band, and the vv file of COG product 1, of the
\* first ROI
RaceS2Key == <<ProdL1C, GranL1C(1)>>
RaceSarFile == SarFile(TRUE, 1, "s1a-iw-grd-vv")

\* the output paths of these units
RacePaths ==
    { S2OutputPath(Rois[1].name, RaceS2Key), SarOutputPath(Rois[1].name, RaceSarFile) }

\* optical 302: what process_s2_image does with the one band file: the
\* band is not stored in band_data (line 143), the granule is skipped
\* (149-151) and None is returned (245-246)
RaceS2Outcomes ==
    { [ret |-> NoneRec, raise |-> FALSE, debug |-> FALSE] }

\* radar 213: what process_sar_image returns and whether it wrote its
\* debug copy
RaceSarOutcomes ==
    { LET out == process_sar_image(in.raster, in.constant, in.reproject_ok,
                                   in.fail, Rois[1].geometry)
      IN  [ret |-> out.ret, raise |-> FALSE, debug |-> out.debug]
      : in \in SarInputs }

\* what a process_* call can do for a worker
RaceResults(path) ==
    IF path = S2OutputPath(Rois[1].name, RaceS2Key) THEN RaceS2Outcomes
    ELSE RaceSarOutcomes

RaceIdle == workers = << >> /\ writes = << >>

RaceInit ==
    /\ workers \in [Workers -> [pc : {"check"}, path : RacePaths, result : {NoneRec}]]
    /\ writes = [p \in RacePaths |-> << >>]

\* a check that would hold the path for the worker that passed it
WorkerCheck_Locked(w) ==
    /\ workers[w].pc = "check"
    /\ workers' = [workers EXCEPT ![w].pc =
          IF \/ OutputExists(workers[w].path)
             \/ \E v \in Workers \ {w} : /\ workers[v].path = workers[w].path
                                          /\ workers[v].pc \in {"process", "save"}
          THEN "skipped" ELSE "process"]
    /\ UNCHANGED <<fs, writes, debugFs>>

\* optical 298-300 / radar 209-211: os.path.exists(output_path)
WorkerCheck(w) ==
    /\ workers[w].pc = "check"
    /\ workers' = [workers EXCEPT ![w].pc =
          IF OutputExists(workers[w].path) THEN "skipped" ELSE "process"]
    /\ UNCHANGED <<fs, writes, debugFs>>

\* optical 302 / radar 213: the call of process_*; an exception that
\* leaves process_s2_image ends the worker's script
WorkerProcess(w) ==
    /\ workers[w].pc = "process"
    /\ \E out \in RaceResults(workers[w].path) :
          /\ workers' = [workers EXCEPT
                            ![w].pc = IF out.raise THEN "crashed" ELSE "save",
                            ![w].result = out.ret]
          /\ debugFs' = IF out.debug
                        THEN debugFs \cup {SarDebugPath(Rois[1].name, RaceSarFile)}
                        ELSE debugFs
    /\ UNCHANGED <<fs, writes>>

\* optical 304-314 / radar 215-225: to_raster(output_path) when there is a
\* result; a failing write leaves the driver
WorkerSave(w) ==
    /\ workers[w].pc = "save"
    /\ IF workers[w].result = NoneRec
       THEN /\ workers' = [workers EXCEPT ![w].pc = "done"]
            /\ UNCHANGED <<fs, writes, debugFs>>
       ELSE \E ok \in BOOLEAN :
               IF ok
               THEN /\ fs' = [fs EXCEPT ![workers[w].path] = FileOf(workers[w].result)]
                    /\ writes' = [writes EXCEPT ![workers[w].path] = Append(@, w)]
                    /\ workers' = [workers EXCEPT ![w].pc = "done", ![w].result = NoneRec]
                    /\ UNCHANGED debugFs
               ELSE /\ workers' = [workers EXCEPT ![w].pc = "crashed", ![w].result = NoneRec]
                    /\ UNCHANGED <<fs, writes, debugFs>>

(***************************************************************************)
(* download_data.py: download_satellite_data (lines 170-195) and           *)
(* download_product (lines 129-168).  An archive is streamed in chunks of  *)
(* 8192 bytes; the model counts the chunks it has on disk.                 *)
(***************************************************************************)
\* a catalogue entry: product['Id'], product['Name'], and the number of
\* chunks its archive is streamed in
Product(id, chunks) == [Id |-> id, Name |-> "P" \o ToString(id), chunks |-> chunks]

\* what search_products can return for an ROI and a collection (line 176)
SearchResults ==
    { << >>,
      << Product(1, 1) >>,
      << Product(2, 2), Product(1, 1) >>,
      << Product(1, 1), Product(2, 2), Product(3, 1), Product(4, 1) >> }

ProductNames ==
    { l[i].Name : <<l, i>> \in { <<e, j>> \in SearchResults \X (1..4) : j <= Len(e) } }

\* line 220: download_satellite_data(..., max_downloads=3)
max_downloads == 3

\* line 188: products[:max_downloads]
Selected(list) == SubSeq(list, 1, IF Len(list) < max_downloads THEN Len(list) ELSE max_downloads)

\* line 188: the loop variable
product == Selected(products)[prodIdx]

\* the file written at line 155-158, `chunks` chunks long
ZipFile(chunks) == [kind |-> "zip", chunks |-> chunks]

\* lines 136-139: os.path.exists(full_path), full_path = <download_path>/<Name>.zip
ArchiveExists(name) == archives[name] # NoFileRec

\* the archive on disk holds the whole product
Complete(q) == archives[q.Name] = ZipFile(q.chunks)

DlIdle ==
    /\ archives = [n \in ProductNames |-> NoFileRec]
    /\ dlPc = "idle" /\ products = << >> /\ prodIdx = 0
    /\ dlRet = [n \in ProductNames |-> None]
    /\ downloaded_count = 0 /\ dlRun = 0

DlInit ==
    /\ archives = [n \in ProductNames |-> NoFileRec]
    /\ dlPc = "search" /\ products = << >> /\ prodIdx = 0
    /\ dlRet = [n \in ProductNames |-> None]
    /\ downloaded_count = 0 /\ dlRun = 1

\* download_product returns `value` ("True" / "False") to the loop of
\* lines 188-193, which counts a True and moves to the next product
ReturnToLoop(value) ==
    /\ dlRet' = [dlRet EXCEPT ![product.Name] = value]
    /\ downloaded_count' = IF value = "True" THEN downloaded_count + 1
                           ELSE downloaded_count
    /\ prodIdx' = prodIdx + 1
    /\ dlPc' = "call"

\* lines 176-187
SearchProducts ==
    /\ dlPc = "search"
    /\ \E found \in SearchResults :
          /\ products' = found
          /\ IF found = << >>
             THEN dlPc' = "done" /\ prodIdx' = 0
             ELSE dlPc' = "call" /\ prodIdx' = 1
    /\ downloaded_count' = 0
    /\ UNCHANGED <<archives, dlRet, dlRun>>

\* lines 139-141: the file is there, the product counts as downloaded
DownloadSkip ==
    /\ dlPc = "call" /\ prodIdx <= Len(Selected(products))
    /\ ArchiveExists(product.Name)
    /\ ReturnToLoop("True")
    /\ UNCHANGED <<archives, products, dlRun>>

\* lines 143-152: the request is answered, or raises (RequestException,
\* also from raise_for_status): return False at lines 163-165
DownloadRequest ==
    /\ dlPc = "call" /\ prodIdx <= Len(Selected(products))
    /\ ~ArchiveExists(product.Name)
    /\ \E ok \in BOOLEAN :
          IF ok
          THEN dlPc' = "open" /\ UNCHANGED <<dlRet, downloaded_count, prodIdx>>
          ELSE ReturnToLoop("False")
    /\ UNCHANGED <<archives, products, dlRun>>

\* line 155: open(full_path, 'wb') creates the empty file, or raises
\* (OSError): return False at lines 166-168
DownloadOpen ==
    /\ dlPc = "open"
    /\ \E ok \in BOOLEAN :
          IF ok
          THEN /\ archives' = [archives EXCEPT ![product.Name] = ZipFile(0)]
               /\ dlPc' = "stream"
               /\ UNCHANGED <<dlRet, downloaded_count, prodIdx>>
          ELSE /\ ReturnToLoop("False")
               /\ UNCHANGED archives
    /\ UNCHANGED <<products, dlRun>>

\* lines 156-158: the next chunk arrives and is written, or iter_content
\* raises; the with statement then closes the file, nothing removes it, and
\* lines 163-168 return False
DownloadChunk ==
    /\ dlPc = "stream"
    /\ archives[product.Name].chunks < product.chunks
    /\ \E ok \in BOOLEAN :
          IF ok
          THEN /\ archives' = [archives EXCEPT ![product.Name] =
                                   ZipFile(archives[product.Name].chunks + 1)]
               /\ UNCHANGED <<dlPc, dlRet, downloaded_count, prodIdx>>
          ELSE /\ ReturnToLoop("False")
               /\ UNCHANGED archives
    /\ UNCHANGED <<products, dlRun>>

\* lines 156, 160-161: every chunk is written; the end of the stream is
\* read and the with statement closes the file, then True is returned; an
\* exception of either (lines 163-168) returns False with the whole
\* archive on disk
DownloadFinish ==
    /\ dlPc = "stream"
    /\ archives[product.Name].chunks = product.chunks
    /\ \E ok \in BOOLEAN : ReturnToLoop(IF ok THEN "True" ELSE "False")
    /\ UNCHANGED <<archives, products, dlRun>>

\* lines 188, 195: the loop is exhausted
DownloadLoopEnd ==
    /\ dlPc = "call" /\ prodIdx > Len(Selected(products))
    /\ dlPc' = "done"
    /\ UNCHANGED <<archives, products, prodIdx, dlRet, downloaded_count, dlRun>>

\* download_satellite_data is called again for the same ROI and collection
\* (the script is started again)
DownloadAgain ==
    /\ dlPc = "done"
    /\ dlRun < MaxRuns
    /\ dlRun' = dlRun + 1
    /\ dlPc' = "search" /\ products' = << >> /\ prodIdx' = 0
    /\ downloaded_count' = 0
    /\ UNCHANGED <<archives, dlRet>>

\* the script is started again
Rerun ==
    /\ pc \in {"done", "crashed"}
    /\ run < MaxRuns
    /\ run' = run + 1
    /\ pc' = "start"
    /\ roiIdx' = 0 /\ units' = << >> /\ unitIdx' = 0 /\ loc' = Idle
    /\ result' = NoneRec /\ exc' = None /\ ran' = {} /\ skipped' = {}
    /\ listing' = << >> /\ files' = << >>
    /\ UNCHANGED <<script, fs, debugFs, firstWrite, sideVars>>

Init == PipeInit /\ MaskIdle /\ RaceIdle /\ DbIdle /\ DlIdle

\* the steps of the two drivers.  No band is ever stored in band_data
\* (line 143), so a call of process_s2_image never gets to lines 160-243:
\* the steps S2Align, S2Mask and S2Clip are those of SpecCall below
Next ==
    \/ LoadRois \/ FindS2 \/ EndOfUnits \/ SkipExisting \/ CallProcessS2
    \/ S2Group \/ S2Return \/ S2Split \/ S2Load \/ SaveS2
    \/ FindSar \/ ProcessSar \/ SaveSar \/ Rerun

Spec == Init /\ [][Next]_vars

InitMask == PipeIdle /\ MaskInit /\ RaceIdle /\ DbIdle /\ DlIdle

NextMask == (DeriveQA60 \/ DeriveSCL) /\ UNCHANGED <<pipeVars, raceVars, dbVars, dlVars>>

SpecMask == InitMask /\ [][NextMask]_vars

InitDb == PipeIdle /\ MaskIdle /\ RaceIdle /\ DbInit /\ DlIdle

NextDb == ConvertToDecibel /\ UNCHANGED <<pipeVars, maskVars, raceVars, dlVars>>

SpecDb == InitDb /\ [][NextDb]_vars

InitRace == PipeIdle /\ MaskIdle /\ DbIdle /\ RaceInit /\ DlIdle

NextRace ==
    /\ \E w \in Workers : WorkerCheck(w) \/ WorkerProcess(w) \/ WorkerSave(w)
    /\ UNCHANGED <<script, run, pc, roiIdx, units, unitIdx, loc, result, exc,
                   ran, skipped, firstWrite, listing, files, maskVars, dbVars, dlVars>>

SpecRace == InitRace /\ [][NextRace]_vars

InitDownload == PipeIdle /\ MaskIdle /\ RaceIdle /\ DbIdle /\ DlInit

NextDownload ==
    /\ \/ SearchProducts \/ DownloadSkip \/ DownloadRequest \/ DownloadOpen
       \/ DownloadChunk \/ DownloadFinish \/ DownloadLoopEnd \/ DownloadAgain
    /\ UNCHANGED <<pipeVars, maskVars, raceVars, dbVars>>

SpecDownload == InitDownload /\ [][NextDownload]_vars

\* process_s2_image from line 160 on, checked on its own: the loop of
\* line 120 stands at a granule of a list that find_s2_jp2_files returned,
\* with the reference band and possibly further bands of the granule in
\* band_data, and with the granule before it clipped and appended to
\* processed_datasets or not
CallGranules ==
    { [groups |-> GroupPaths(paths), gIdx |-> g] :
         <<paths, g>> \in { <<q, h>> \in (UNION { find_s2_jp2_files(d) : d \in S2Disks })
                                             \X (1..2) :
                               /\ h <= Len(GroupPaths(q))
                               /\ \E i \in 1..Len(GroupPaths(q)[h].paths) :
                                     GroupPaths(q)[h].paths[i].band = reference_band } }

CallProcessed(gIdx, geometry) ==
    {<< >>}
    \cup IF gIdx = 1 THEN {}
         ELSE { <<RioClip(Grid(r, <<reference_band>>, <<"band", "y", "x">>), geometry, GEO)>> :
                   r \in { q \in Rasters : q.crs = GEO /\ q.lo = 0
                                           /\ geometry.lo <= q.hi } }

InitCall ==
    /\ script = "optical" /\ run = 1 /\ pc = "s2_align"
    /\ roiIdx \in 1..Len(Rois)
    /\ units = << >> /\ unitIdx = 0
    /\ \E c \in CallGranules :
          LET paths == c.groups[c.gIdx].paths
              image == image_band_paths(paths)
          IN  \E loaded \in SUBSET { image[i].band : i \in 1..Len(image) } :
              \E processed \in CallProcessed(c.gIdx, Rois[roiIdx].geometry) :
                 /\ reference_band \in loaded
                 /\ loc = [S2Locals(<< >>) EXCEPT
                              !.groups = c.groups, !.gIdx = c.gIdx,
                              !.image = image, !.qa = qa_scl_band_paths(paths),
                              !.band_data = SelectSeq(BandsOf(image),
                                                      LAMBDA b : b \in loaded),
                              !.opened = loaded,
                              !.processed = processed]
    /\ result = NoneRec /\ exc = None
    /\ fs = [p \in OutPaths |-> NoFileRec] /\ debugFs = {} /\ ran = {}
    /\ skipped = {} /\ firstWrite = [p \in OutPaths |-> NoFileRec]
    /\ listing = << >> /\ files = << >>
    /\ MaskIdle /\ RaceIdle /\ DbIdle /\ DlIdle

NextCall ==
    S2Align \/ S2Mask \/ S2Clip \/ S2Split \/ S2Load \/ S2Return

SpecCall == InitCall /\ [][NextCall]_vars

(***************************************************************************)
(* Properties.                                                             *)
(***************************************************************************)
\* positions inside a process_* call or between its return and the write
ProcessingPcs ==
    {"s2_group", "s2_granule", "s2_load", "s2_align", "s2_mask", "s2_clip", "save"}

\* the driver is at a unit of the current ROI
AtUnit == roiIdx >= 1 /\ unitIdx >= 1 /\ unitIdx <= Len(units)

\* C1: in bit-field (QA60) mode the derived mask is true exactly for the
\* quality values that have bit 10, bit 11 or bit 14 set.
C1_BitfieldMask ==
    (qaIn.band = "QA60" /\ maskOut # << >>) =>
        maskOut[1] = [kind |-> "mask", v |-> \/ qaIn.v % 2048 >= 1024
                                             \/ qaIn.v % 4096 >= 2048
                                             \/ qaIn.v % 32768 >= 16384]

\* C2: in classification (SCL) mode the derived mask is true exactly for
\* the class codes 3, 8, 9 and 10.
C2_ClassificationMask ==
    (qaIn.band = "SCL_20m" /\ maskOut # << >>) =>
        maskOut[1] = [kind |-> "mask", v |-> (qaIn.v = 3 \/ (8 <= qaIn.v /\ qaIn.v <= 10))]

\* the cloud-shadow code 3 was given a true mask
C2_Witness ==
    qaIn.band = "SCL_20m" /\ qaIn.v = 3 /\ maskOut = <<[kind |-> "mask", v |-> TRUE]>>

C5_Idempotent ==
    /\ \A p \in OutPaths : fs[p] # NoFileRec => fs[p] = firstWrite[p]
    /\ (pc \in ProcessingPcs /\ AtUnit) => fs[output_path] = NoFileRec

\* a second run skipped a unit of the radar driver whose output the first
\* run wrote, and ended with that file still in place
C5_Witness ==
    /\ script = "radar" /\ run = 2 /\ pc = "done" /\ skipped # {}
    /\ \E p \in OutPaths : fs[p] # NoFileRec /\ fs[p].run = 1

\* C6 as claimed: when the output of a unit exists, no component at all,
\* discovery and grouping included, runs for the unit in that run.
C6_NothingRuns ==
    (AtUnit /\ fs[output_path] # NoFileRec) => ran = {}

\* C6 as amended: when the output of a unit exists, nothing but discovery
\* and grouping, which yield the key the path is derived from, runs for it.
C6_OnlyDiscoveryRuns ==
    (AtUnit /\ fs[output_path] # NoFileRec) => ran \subseteq {"discover", "group"}

\* the radar driver skipped the first file of a ROI and stands at the
\* second, whose output exists too, with discovery alone run for it
C6_Witness ==
    /\ script = "radar" /\ pc = "check" /\ 1 \in skipped /\ unitIdx = 2
    /\ AtUnit /\ fs[output_path] # NoFileRec
    /\ units[1].base # units[2].base
    /\ ran = {"discover"}

\* C7: no exception leaves the loop of a driver.
C7_Contained == pc # "crashed"

\* C8: no output file is written for a unit whose ROI lies entirely
\* outside the raster's extent.
C8_OutsideNoOutput ==
    [][\A p \in OutPaths :
          fs'[p] # fs[p] => ~RoiOutside(roi.geometry, result.src)]_vars

\* C9: every file at a processed output path is a grid clipped to the ROI.
C9_OutputClipped ==
    \A p \in OutPaths : fs[p] # NoFileRec => fs[p].clipped

HasBand(bands, b) == \E i \in 1..Len(bands) : bands[i] = b

\* position of the operation op in the history h of a grid
Pos(h, op) == CHOOSE i \in 1..Len(h) : h[i] = op

\* the radar driver holds the grid that process_sar_image returned
SarReturned == script = "radar" /\ pc = "save" /\ result # NoneRec

\* C11: a written output carries a CRS, and a grid that had no CRS is
\* written with the fallback of its pipeline: EPSG:32643 by the optical
\* driver, EPSG:4326 by the radar driver.
C11_FallbackCrs ==
    [][\A p \in OutPaths :
          fs'[p] # fs[p] =>
             /\ fs'[p].crs # None
             /\ result.crsIn = None =>
                   fs'[p].crs = (IF script = "optical" THEN UTM ELSE GEO)]_vars

\* C12: a grid that went through the reprojection step carried a CRS when
\* it was handed to it.
C12_CrsBeforeSpatialOps ==
    (SarReturned /\ "align" \in ran) => result.crsIn # None

\* C13: the outcome of a worker's check is decided by the existence of the
\* output path at that moment alone, whatever another worker that passed
\* the check for the same path is doing; so both can pass it and write.
C13_CheckNotAtomic ==
    [][\A w \in Workers :
          (workers[w].pc = "check" /\ workers'[w].pc # "check") =>
             (workers'[w].pc = "process" <=> fs[workers[w].path] = NoFileRec)]_vars

\* both workers wrote the same output path
C13_Witness ==
    \E p \in RacePaths :
       /\ Len(writes[p]) = 2 /\ writes[p][1] # writes[p][2]
       /\ workers["w1"].path = p /\ workers["w2"].path = p

\* C14: the decibel transform is non-decreasing on inputs >= epsilon, is
\* finite for input 0, and gives every input below epsilon the value it
\* gives epsilon.
C14_Decibel ==
    dbOut # << >> =>
       /\ (10 <= dbIn[1] /\ dbIn[1] <= dbIn[2]) =>
             /\ dbOut[1].kind = "finite" /\ dbOut[2].kind = "finite"
             /\ dbOut[1].val <= dbOut[2].val
       /\ dbIn[1] = 0 => dbOut[1].kind = "finite"
       /\ (dbIn[1] < 10 /\ dbIn[2] = 10) => dbOut[1] = dbOut[2]

\* input 0 next to an input a decade above the floor: finite, and lower
C14_Witness ==
    /\ dbIn = <<0, 100>> /\ dbOut # << >>
    /\ dbOut[1].kind = "finite" /\ dbOut[1].val < dbOut[2].val

\* C15: a constant amplitude grid leaves the speckle filter without having
\* been rescaled or denoised.
C15_ConstantPassThrough ==
    (SarReturned /\ result.constant) =>
        ~result.denoised /\ ~HasBand(result.hist, "denoise")

\* a constant grid went through the filter step and was returned
C15_Witness ==
    SarReturned /\ result.constant /\ "filter" \in ran /\ result.unit = "dB"

\* C16: process_s2_image returns the first granule, in grouping order, of
\* those it processed, and returns None exactly when it processed none.
C16_FirstGranule ==
    [][(pc = "s2_granule" /\ pc' = "save") =>
          IF loc.processed = << >>
          THEN result' = NoneRec
          ELSE result' = loc.processed[1] /\ result'.kind = "grid"]_vars

\* a call that processed two granules returned a grid
C16_Witness ==
    pc = "save" /\ loc.kind = "returned" /\ loc.processed = 2 /\ result # NoneRec

\* C17 as claimed: the grid given to the denoising step is the reprojected
\* grid.
C17_FilterAfterReprojection ==
    (SarReturned /\ result.denoised /\ result.reprojected) =>
        Pos(result.hist, "reproject") < Pos(result.hist, "denoise")

\* C17 as amended: the grid given to the denoising step is the grid as it
\* was read, and reprojection acts on the filtered grid.
C17_FilterBeforeReprojection ==
    (SarReturned /\ result.denoised /\ result.reprojected) =>
        Pos(result.hist, "denoise") < Pos(result.hist, "reproject")

\* a grid that was both denoised and reprojected was returned
C17_Witness ==
    SarReturned /\ result.denoised /\ result.reprojected /\ result.crs = UTM

\* C18: when a band file of a granule is unreadable and at least one other
\* band file was read, the granule goes on to alignment with the bands
\* that were read, whichever band is the unreadable one.
C18_ContinuesWithRemaining ==
    ~(/\ pc = "s2_granule" /\ "load" \in ran /\ "align" \notin ran
      /\ loc.kind = "s2"
      /\ loc.opened # {}
      /\ loc.opened # { loc.image[i].band : i \in 1..Len(loc.image) })

\* a candidate file of the discovery: a 10 m band, a 20 m band or the SCL
\* band under IMG_DATA, or the QA60 band under QI_DATA
Candidate(f) ==
    \/ /\ f.dir = "IMG_DATA"
       /\ f.band \in {"B02", "B03", "B04", "B08", "B05", "B06", "B07", "B8A",
                      "B11", "B12", "SCL_20m"}
    \/ f.dir = "QI_DATA" /\ f.band = "QA60"

\* C19: every candidate file of an L1C product in the directory is in the
\* list that find_s2_jp2_files returned, exactly once.
C19_AllCandidatesFound ==
    script = "optical" =>
       \A i \in 1..Len(listing) :
          (listing[i].prod.level = "L1C" /\ Candidate(listing[i])) =>
             Cardinality({ j \in 1..Len(files) : files[j] = listing[i] }) = 1

\* C20: every candidate file of an L2A product in the directory is in the
\* list that find_s2_jp2_files returned and in the driver's group of its
\* (product, granule).
C20_L2AHandled ==
    script = "optical" =>
       \A i \in 1..Len(listing) :
          (listing[i].prod.level = "L2A" /\ Candidate(listing[i])) =>
             /\ HasBand(files, listing[i])
             /\ \E u \in 1..Len(units) :
                   /\ units[u].key = <<listing[i].prod, listing[i].gran>>
                   /\ HasBand(units[u].paths, listing[i])


\* optical 294-296 / radar 205-207: the output path the driver derives for
\* the i-th unit of the current ROI's list
UnitOutputPath(i) ==
    IF script = "optical"
    THEN S2OutputPath(roi.name, units[i].key)
    ELSE SarOutputPath(roi.name, units[i])

\* C21: within one ROI and collection two distinct processing units (optical
\* (product, granule) pairs, radar amplitude files, also of different
\* product directories) never map to the same output path, and so no unit
\* is skipped as already processed because of another unit's output: in the
\* first run, which starts with no output file, no unit is skipped.
C21_InjectivePaths ==
    AtUnit =>
        /\ \A i, j \in 1..Len(units) :
              units[i] # units[j] => UnitOutputPath(i) # UnitOutputPath(j)
        /\ run = 1 => skipped = {}


\* C22: a product archive that exists at the download path is a completely
\* downloaded one: outside a running download_product call every archive on
\* disk holds the whole product, and a product for which download_product
\* returned True last (a later call after a failed one included) has its
\* whole archive on disk: it was not skipped on the strength of a partial
\* file.
C22_ArchiveComplete ==
    \A list \in SearchResults : \A i \in 1..Len(list) :
        LET q == list[i]
        IN  /\ (dlPc \notin {"open", "stream"} /\ ArchiveExists(q.Name)) => Complete(q)
            /\ dlRet[q.Name] = "True" => Complete(q)

============================================================================
